---- MODULE Spec2Model ----
(***************************************************************************)
(* Telemetry backend of solar-log-hub: the SQLite store (database.js), the *)
(* HTTP handlers of the named-readings server (server.js) and the global   *)
(* WebSocket subscriber set.                                               *)
(*                                                                         *)
(* Every database call is one SQL statement and therefore one step; a      *)
(* handler that awaits several statements is a sequence of steps between   *)
(* which every other handler may run.                                      *)
(***************************************************************************)
EXTENDS Integers, Sequences, FiniteSets, TLC

\* ---------------------------------------------------------------- bounds
NumOrgs == 2
MaxDevices == 2
MaxSensors == 2
MaxMaps == 2
MaxSamples == 2
MaxBatchLen == 2
MaxClock == 1
NumClients == 2
\* millis() counts loop delays modulo MillisWrap (the unsigned long's 2^32),
\* and a send is due every SendInterval of them
MillisWrap == 8
SendInterval == 3
\* the organizations registrations may create
MaxRegistrations == 2

\* ---------------------------------------------------------------- domains
\* SQL NULL / JavaScript undefined in a numeric position
NULL == -1

Orgs == 1..NumOrgs
\* "" is the empty (falsy) device name of a request body
DeviceNames == {"D1", "D2"}
SensorNames == {"RAD", "T1"}
Values == {0, 5}
Clients == 1..NumClients

\* one element of req.body.data: {sensor_name, value}; value may be missing
Readings(values) == [sensor_name : SensorNames, value : values \cup {NULL}]

RECURSIVE SeqsUpTo(_, _)
SeqsUpTo(S, n) ==
  IF n = 0 THEN {<<>>}
  ELSE LET shorter == SeqsUpTo(S, n - 1)
       IN shorter \cup {Append(q, x) : q \in {r \in shorter : Len(r) = n - 1}, x \in S}

BatchBodies(values) == SeqsUpTo(Readings(values), MaxBatchLen)

VARIABLES
  devices,      \* table devices: set of [id, name, organization_id, last_seen]
  sensors,      \* table sensors: set of [id, device_id, sensor_name, is_active]
  modbus_maps,  \* table modbus_maps: set of [id, sensor_id]
  sensor_data,  \* table sensor_data: set of [id, sensor_id, value, timestamp]
  seq,          \* sqlite_sequence: last AUTOINCREMENT id handed out per table
  now,          \* CURRENT_TIMESTAMP (one-second resolution)
  clients,      \* the Set `clients` of server.js, in insertion order
  readyState,   \* readyState of every socket
  inbox,        \* the message each socket is sent in this step
  req,          \* the POST /api/sensor-data request in flight
  res,          \* the response to it, in the step that writes it
  lastQuery,    \* the response of the read request answered in this step
  posts,        \* the POST /api/devices requests in flight, per connection
  settings,     \* table settings: set of [key, value, description, updated_at]
  field,        \* the field unit: its Modbus slave's registers and its last read
  accounts      \* tables organizations and users, and the registrations in flight

vars == <<devices, sensors, modbus_maps, sensor_data, seq, now,
          clients, readyState, inbox, req, res, lastQuery, posts, settings, field, accounts>>

store == <<devices, sensors, modbus_maps, sensor_data, seq>>
bus == <<clients, readyState, inbox>>

\* ---------------------------------------------------------------- store
\* initialize() opens the connection and never issues PRAGMA foreign_keys = ON;
\* SQLite then parses REFERENCES ... ON DELETE CASCADE but does not enforce it.
foreign_keys == FALSE

NoQuery == [kind |-> "none"]

IdleReq == [pc |-> "idle"]

NoResponse == [status |-> 0]

\* the width of a holding register and of rawValue: uint16_t
Word == 65536

\* the register contents tried: small values, 452, and both sides of 0x8000
RawValues == {0, 1, 452, 32767, 32768, 65535}

\* the holding registers sendSensorData reads: radiation and temperature1
Addresses == {40001, 40002}

\* scale and offset in tenths: scale 10 is the source's 1.0, scale 1 its 0.1
Scales == {1, 10}

Offsets == {0, 50}

\* no read has been made yet
NoRead == [ok |-> FALSE, address |-> 0, rawValue |-> 0, scale |-> 0, offset |-> 0,
           value |-> 0]

\* the keys in use: two of the defaults of insertDefaultSettings and one
\* that is no default
SettingKeys == {"data_interval", "timezone", "site"}

\* the defaults of insertDefaultSettings: [key, value, description]
DefaultSettings ==
  {[key |-> "data_interval", value |-> "300",
    description |-> {"Data collection interval in seconds (default: 5 minutes)"}],
   [key |-> "timezone", value |-> "Europe/Istanbul", description |-> {"System timezone"}]}

\* seeding that overwrites the rows of the default keys
SeededAnew(rows) ==
  {r \in rows : \A d \in DefaultSettings : d.key # r.key} \cup
  {[key |-> d.key, value |-> d.value, description |-> d.description, updated_at |-> 0]
     : d \in DefaultSettings}

\* insertDefaultSettings: INSERT OR IGNORE of every default; a key that has a
\* row keeps it. A description is a set: empty for SQL NULL
Seeded(rows) ==
  rows \cup
  {[key |-> d.key, value |-> d.value, description |-> d.description, updated_at |-> 0]
     : d \in {e \in DefaultSettings : \A r \in rows : r.key # e.key}}

\* no POST /api/auth/register in flight on a connection
IdleReg == [pc |-> "idle", email |-> "", organization_name |-> "", status |-> 0,
            organization_id |-> NULL]

\* the connections that may each have a POST /api/devices in flight
Posters == {1, 2}

IdlePost == [pc |-> "idle"]

\* the lookup with its WHERE d.name = ? lost
getDeviceByNameAnyName(name) == devices

getDeviceByName(name) == {d \in devices : d.name = name}

getSensorById(id) == {s \in sensors : s.id = id}

getSensorsByDevice(deviceId) == {s \in sensors : s.device_id = deviceId}

getModbusMapsByDevice(deviceId) ==
  {m \in modbus_maps : \E s \in sensors : s.id = m.sensor_id /\ s.device_id = deviceId}

getModbusMapBySensor(sensorId) == {m \in modbus_maps : m.sensor_id = sensorId}

\* rows the foreign keys remove together with a set of deleted devices
CascadeSensors(deadDevices) == {s \in sensors : s.device_id \in deadDevices}

Init ==
  /\ devices = {}
  /\ sensors = {}
  /\ modbus_maps = {}
  /\ sensor_data = {}
  /\ seq = [devices |-> 0, sensors |-> 0, modbus_maps |-> 0, sensor_data |-> 0]
  /\ now = 0
  /\ clients = <<>>
  /\ readyState = [c \in Clients |-> "CLOSED"]
  /\ inbox = [c \in Clients |-> [type |-> "none"]]
  /\ req = IdleReq
  /\ res = [status |-> 0]
  /\ lastQuery = NoQuery
  /\ posts = [p \in Posters |-> IdlePost]
  /\ settings = Seeded({})
  /\ field = [registers |-> [a \in Addresses |-> 0], read |-> NoRead,
              millis |-> 1, lastSendTime |-> 0, ethernetConnected |-> FALSE,
              lastDataSend |-> 0, eth_connected |-> FALSE,
              radiation |-> 0, temperature1 |-> 0,
              attempted |-> FALSE, sinceAttempt |-> 0, outcome |-> "none",
              sent |-> <<>>]
  /\ accounts = [organizations |-> {[id |-> 1, name |-> "System Admin"]},
                 users |-> {[id |-> 1, email |-> "admin@solar-monitor.local",
                             role |-> "admin", organization_id |-> 1]},
                 seq |-> [organizations |-> 1, users |-> 1],
                 regs |-> [p \in Posters |-> IdleReg]]

Tick ==
  /\ now < MaxClock
  /\ now' = now + 1
  /\ inbox' = [c \in Clients |-> [type |-> "none"]]
  /\ lastQuery' = NoQuery
  /\ UNCHANGED <<posts, settings, field, accounts>>
  /\ res' = NoResponse
  /\ UNCHANGED <<store, clients, readyState, req>>

\* ---------------------------------------------------------------- live bus
NoMessage == [type |-> "none"]

Quiet == [c \in Clients |-> NoMessage]

\* wss.on('connection'): the socket joins the set, open
Connect(c) ==
  /\ \A j \in 1..Len(clients) : clients[j] # c
  /\ clients' = Append(clients, c)
  /\ readyState' = [readyState EXCEPT ![c] = "OPEN"]
  /\ inbox' = Quiet
  /\ lastQuery' = NoQuery
  /\ UNCHANGED <<posts, settings, field, accounts>>
  /\ res' = NoResponse
  /\ UNCHANGED <<store, now, req>>

\* the peer goes away: the socket leaves OPEN before its 'close' event fires
Disconnect(c) ==
  /\ readyState[c] = "OPEN"
  /\ readyState' = [readyState EXCEPT ![c] = "CLOSING"]
  /\ inbox' = Quiet
  /\ lastQuery' = NoQuery
  /\ UNCHANGED <<posts, settings, field, accounts>>
  /\ res' = NoResponse
  /\ UNCHANGED <<store, now, clients, req>>

\* the 'close' handler without its clients.delete(ws)
OnCloseKeepsSubscriber(c) ==
  /\ readyState[c] = "CLOSING"
  /\ readyState' = [readyState EXCEPT ![c] = "CLOSED"]
  /\ inbox' = Quiet
  /\ lastQuery' = NoQuery
  /\ UNCHANGED <<posts, settings, field, accounts>>
  /\ res' = NoResponse
  /\ UNCHANGED <<store, now, clients, req>>

\* ws.on('close'): clients.delete(ws)
OnClose(c) ==
  /\ readyState[c] = "CLOSING"
  /\ clients' = SelectSeq(clients, LAMBDA x : x # c)
  /\ readyState' = [readyState EXCEPT ![c] = "CLOSED"]
  /\ inbox' = Quiet
  /\ lastQuery' = NoQuery
  /\ UNCHANGED <<posts, settings, field, accounts>>
  /\ res' = NoResponse
  /\ UNCHANGED <<store, now, req>>

\* the sockets broadcast() calls send() on, in forEach order
OpenClients == SelectSeq(clients, LAMBDA c : readyState[c] = "OPEN")

\* client.send() is not wrapped in try/catch: the first k sends return, and
\* when k < Len(OpenClients) the next one throws out of forEach and broadcast
SendOutcomes == 0..Len(OpenClients)

Threw(k) == k < Len(OpenClients)

broadcast(message, k) ==
  [c \in Clients |->
     IF \E j \in 1..k : OpenClients[j] = c THEN message ELSE NoMessage]

\* ---------------------------------------------------------------- devices
\* POST /api/devices -> db.upsertDevice(name, req.user.organization_id)
UpsertDevice(name, organizationId) ==
  /\ \/ /\ getDeviceByName(name) # {}
        /\ devices' = {IF d.name = name THEN [d EXCEPT !.last_seen = now] ELSE d
                         : d \in devices}
        /\ seq' = seq
     \/ /\ getDeviceByName(name) = {}
        /\ seq.devices < MaxDevices
        /\ devices' = devices \cup
             {[id |-> seq.devices + 1, name |-> name,
               organization_id |-> organizationId, last_seen |-> NULL]}
        /\ seq' = [seq EXCEPT !.devices = @ + 1]
  /\ \E k \in SendOutcomes :
       inbox' = broadcast([type |-> "device_update", name |-> name], k)
  /\ lastQuery' = NoQuery
  /\ UNCHANGED <<posts, settings, field, accounts>>
  /\ res' = NoResponse
  /\ UNCHANGED <<sensors, modbus_maps, sensor_data, now, clients, readyState,
                 req>>

\* the devices table without UNIQUE on name
DeviceNameTakenNever(name) == FALSE

\* name TEXT UNIQUE NOT NULL: an INSERT of a name a row already has fails
DeviceNameTaken(name) == \E d \in devices : d.name = name

\* the answer of POST /api/devices
Posted(status, name, device) ==
  [kind |-> "upsertDevice", status |-> status, rows |-> {},
   filter |-> [name |-> name], device |-> device]

\* one step of the handler of connection p, which moves it to `next`
PostStep(p, next) ==
  /\ posts' = [posts EXCEPT ![p] = next]
  /\ UNCHANGED <<settings, field, accounts>>
  /\ res' = NoResponse
  /\ UNCHANGED <<sensors, modbus_maps, sensor_data, now, clients, readyState, req>>

\* POST /api/devices arrives: `if (!name)` answers 400 before any await
PostDevice(p, name, organizationId) ==
  /\ posts[p].pc = "idle"
  /\ IF name = ""
     THEN /\ PostStep(p, IdlePost)
          /\ lastQuery' = Posted(400, name, {})
     ELSE /\ PostStep(p, [pc |-> "lookup", name |-> name,
                          organization_id |-> organizationId])
          /\ lastQuery' = NoQuery
  /\ inbox' = Quiet
  /\ UNCHANGED <<devices, seq>>

\* upsertDevice: const existing = await this.getDeviceByName(name)
UpsertLookup(p) ==
  /\ posts[p].pc = "lookup"
  /\ IF getDeviceByName(posts[p].name) # {}
     THEN PostStep(p, [posts[p] EXCEPT !.pc = "update"]) /\ lastQuery' = NoQuery
     ELSE IF posts[p].organization_id = NULL
     THEN PostStep(p, IdlePost) /\ lastQuery' = Posted(500, posts[p].name, {})
     ELSE PostStep(p, [posts[p] EXCEPT !.pc = "insert"]) /\ lastQuery' = NoQuery
  /\ inbox' = Quiet
  /\ UNCHANGED <<devices, seq>>

\* upsertDevice: the UPDATE ... WHERE name = ? or the INSERT the lookup chose;
\* an INSERT that fails rejects, and the route's catch answers 500
UpsertWrite(p) ==
  /\ \/ /\ posts[p].pc = "update"
        /\ devices' = {IF d.name = posts[p].name THEN [d EXCEPT !.last_seen = now]
                       ELSE d : d \in devices}
        /\ seq' = seq
        /\ PostStep(p, [posts[p] EXCEPT !.pc = "reread"])
        /\ lastQuery' = NoQuery
     \/ /\ posts[p].pc = "insert"
        /\ DeviceNameTaken(posts[p].name)
        /\ UNCHANGED <<devices, seq>>
        /\ PostStep(p, IdlePost)
        /\ lastQuery' = Posted(500, posts[p].name, {})
     \/ /\ posts[p].pc = "insert"
        /\ ~ DeviceNameTaken(posts[p].name)
        /\ seq.devices < MaxDevices
        /\ devices' = devices \cup
             {[id |-> seq.devices + 1, name |-> posts[p].name,
               organization_id |-> posts[p].organization_id, last_seen |-> NULL]}
        /\ seq' = [seq EXCEPT !.devices = @ + 1]
        /\ PostStep(p, [posts[p] EXCEPT !.pc = "reread"])
        /\ lastQuery' = NoQuery
  /\ inbox' = Quiet

\* upsertDevice: return this.getDeviceByName(name); then broadcast and res.json
UpsertRespond(p) ==
  /\ posts[p].pc = "reread"
  /\ \E k \in SendOutcomes :
       /\ inbox' = broadcast([type |-> "device_update", name |-> posts[p].name], k)
       /\ lastQuery' = Posted(IF Threw(k) THEN 500 ELSE 200, posts[p].name,
                              getDeviceByName(posts[p].name))
  /\ PostStep(p, IdlePost)
  /\ UNCHANGED <<devices, seq>>

\* DELETE /api/devices/:id -> db.deleteDevice(id)
DeleteDevice(id) ==
  LET deadSensors == IF foreign_keys THEN {s.id : s \in CascadeSensors({id})} ELSE {}
  IN /\ \E d \in devices : d.id = id
     /\ devices' = {d \in devices : d.id # id}
     /\ sensors' = {s \in sensors : s.id \notin deadSensors}
     /\ modbus_maps' = {m \in modbus_maps : m.sensor_id \notin deadSensors}
     /\ sensor_data' = {r \in sensor_data : r.sensor_id \notin deadSensors}
     /\ inbox' = Quiet
     /\ lastQuery' = NoQuery
     /\ UNCHANGED <<posts, settings, field, accounts>>
     /\ res' = NoResponse
     /\ UNCHANGED <<seq, now, clients, readyState, req>>

\* ---------------------------------------------------------------- sensors
\* the table without its UNIQUE(device_id, sensor_name)
UniqueViolationNever(id, deviceId, sensorName) == FALSE

\* UNIQUE(device_id, sensor_name): the row `id` (NULL for a new row) would
\* repeat the pair of another row; the statement then fails and changes nothing
UniqueViolation(id, deviceId, sensorName) ==
  \E t \in sensors : t.id # id /\ t.device_id = deviceId /\ t.sensor_name = sensorName

\* POST /api/devices/:deviceId/sensors -> db.createSensor(deviceId, name, type)
\* UNIQUE(device_id, sensor_name) rejects a duplicate; the device reference is
\* checked only when foreign keys are enforced
CreateSensor(deviceId, sensorName) ==
  /\ seq.sensors < MaxSensors
  /\ ~ UniqueViolation(NULL, deviceId, sensorName)
  /\ foreign_keys => \E d \in devices : d.id = deviceId
  /\ sensors' = sensors \cup
       {[id |-> seq.sensors + 1, device_id |-> deviceId,
         sensor_name |-> sensorName, is_active |-> 1]}
  /\ seq' = [seq EXCEPT !.sensors = @ + 1]
  /\ inbox' = Quiet
  /\ lastQuery' = NoQuery
  /\ UNCHANGED <<posts, settings, field, accounts>>
  /\ res' = NoResponse
  /\ UNCHANGED <<devices, modbus_maps, sensor_data, now, clients, readyState,
                 req>>

\* PUT /api/sensors/:id -> db.updateSensor(id, name, type, unit, isActive)
UpdateSensor(id, sensorName, isActive) ==
  /\ \E s \in sensors : s.id = id
  /\ ~ \E s \in sensors : s.id = id /\ UniqueViolation(id, s.device_id, sensorName)
  /\ sensors' = {IF s.id = id
                 THEN [s EXCEPT !.sensor_name = sensorName, !.is_active = isActive]
                 ELSE s : s \in sensors}
  /\ sensors' # sensors
  /\ inbox' = Quiet
  /\ lastQuery' = NoQuery
  /\ UNCHANGED <<posts, settings, field, accounts>>
  /\ res' = NoResponse
  /\ UNCHANGED <<devices, modbus_maps, sensor_data, seq, now, clients, readyState,
                 req>>

\* DELETE /api/sensors/:id -> db.deleteSensor(id)
DeleteSensor(id) ==
  /\ \E s \in sensors : s.id = id
  /\ sensors' = {s \in sensors : s.id # id}
  /\ modbus_maps' = IF foreign_keys THEN {m \in modbus_maps : m.sensor_id # id}
                    ELSE modbus_maps
  /\ sensor_data' = IF foreign_keys THEN {r \in sensor_data : r.sensor_id # id}
                    ELSE sensor_data
  /\ inbox' = Quiet
  /\ lastQuery' = NoQuery
  /\ UNCHANGED <<posts, settings, field, accounts>>
  /\ res' = NoResponse
  /\ UNCHANGED <<devices, seq, now, clients, readyState, req>>

\* the answer of a management request whose statement failed: the route's
\* catch sends 500 and the store is as before
Failed(kind, deviceId, sensorName) ==
  /\ lastQuery' = [kind |-> kind, status |-> 500, rows |-> {},
                   filter |-> [deviceId |-> deviceId, sensor_name |-> sensorName]]
  /\ UNCHANGED <<posts, settings, field, accounts>>
  /\ res' = NoResponse
  /\ inbox' = Quiet
  /\ UNCHANGED <<store, now, clients, readyState, req>>

\* POST /api/devices/:deviceId/sensors when the INSERT is rejected
CreateSensorRejected(deviceId, sensorName) ==
  /\ \/ UniqueViolation(NULL, deviceId, sensorName)
     \/ foreign_keys /\ ~ \E d \in devices : d.id = deviceId
  /\ Failed("createSensor", deviceId, sensorName)

\* PUT /api/sensors/:id when the UPDATE is rejected
UpdateSensorRejected(id, sensorName, isActive) ==
  \E s \in sensors :
    /\ s.id = id
    /\ UniqueViolation(id, s.device_id, sensorName)
    /\ Failed("updateSensor", s.device_id, sensorName)

\* POST /api/sensors/:sensorId/modbus-map -> db.insertModbusMap(sensorId, ...)
InsertModbusMap(sensorId) ==
  /\ seq.modbus_maps < MaxMaps
  /\ foreign_keys => \E s \in sensors : s.id = sensorId
  /\ modbus_maps' = modbus_maps \cup {[id |-> seq.modbus_maps + 1, sensor_id |-> sensorId]}
  /\ seq' = [seq EXCEPT !.modbus_maps = @ + 1]
  /\ inbox' = Quiet
  /\ lastQuery' = NoQuery
  /\ UNCHANGED <<posts, settings, field, accounts>>
  /\ res' = NoResponse
  /\ UNCHANGED <<devices, sensors, sensor_data, now, clients, readyState, req>>

\* ---------------------------------------------------------------- ingestion
\* req.body of POST /api/sensor-data; has_data is false when `data` is absent
Bodies(names, values) ==
  {b \in [device_name : names \cup {""}, has_data : BOOLEAN, data : BatchBodies(values)] :
     b.has_data \/ b.data = <<>>}

\* sensors.find(s => s.sensor_name === item.sensor_name) on the handler's copy
find(snap, sensorName) == {s \in snap : s.sensor_name = sensorName}

\* the loop's test with `&& sensor.is_active` lost
AcceptsInactive(snap, item) == find(snap, item.sensor_name) # {}

\* the `if (sensor && sensor.is_active)` test of the loop
Accepts(snap, item) == \E s \in find(snap, item.sensor_name) : s.is_active = 1

\* what the caller and the store see of a finished request: the HTTP status,
\* the `inserted` count of the body, and the request it answers
Reply(r, status, inserted, published, threw) ==
  [status |-> status, inserted |-> inserted, published |-> published, threw |-> threw,
   device_name |-> r.device_name, data |-> r.data, device_id |-> r.device_id,
   snap |-> r.snap, first |-> r.first, results |-> r.results, writes |-> r.writes]

\* the request arrives; the field check runs before the first await
Receive(body) ==
  /\ req.pc = "idle"
  /\ seq.sensor_data + Len(body.data) <= MaxSamples
  /\ LET r == [pc |-> "getDevice", device_name |-> body.device_name, data |-> body.data,
               device_id |-> NULL, snap |-> {}, i |-> 1, row |-> NULL, sensor_id |-> NULL,
               results |-> <<>>, first |-> seq.sensor_data + 1, writes |-> 0]
     IN IF body.device_name = "" \/ ~ body.has_data
        THEN /\ req' = IdleReq
             /\ res' = Reply(r, 400, NULL, FALSE, FALSE)
        ELSE /\ req' = r
             /\ res' = NoResponse
  /\ inbox' = Quiet
  /\ lastQuery' = NoQuery
  /\ UNCHANGED <<posts, settings, field, accounts>>
  /\ UNCHANGED <<store, now, clients, readyState>>

\* const device = await db.getDeviceByName(device_name)
GetDevice ==
  /\ req.pc = "getDevice"
  /\ \/ /\ getDeviceByName(req.device_name) = {}
        /\ req' = IdleReq
        /\ res' = Reply(req, 404, NULL, FALSE, FALSE)
     \/ /\ \E d \in getDeviceByName(req.device_name) :
             req' = [req EXCEPT !.pc = "getSensors", !.device_id = d.id]
        /\ res' = NoResponse
  /\ inbox' = Quiet
  /\ lastQuery' = NoQuery
  /\ UNCHANGED <<posts, settings, field, accounts>>
  /\ UNCHANGED <<store, now, clients, readyState>>

\* const sensors = await db.getSensorsByDevice(device.id)
GetSensors ==
  /\ req.pc = "getSensors"
  /\ req' = [req EXCEPT !.pc = "loop", !.snap = getSensorsByDevice(req.device_id)]
  /\ res' = NoResponse
  /\ inbox' = Quiet
  /\ lastQuery' = NoQuery
  /\ UNCHANGED <<posts, settings, field, accounts>>
  /\ UNCHANGED <<store, now, clients, readyState>>

\* an INSERT that stores nothing when the sensor already has a Sample of that value
InsertSampleOnce(sensorId, value) ==
  IF \E x \in sensor_data : x.sensor_id = sensorId /\ x.value = value
  THEN sensor_data
  ELSE sensor_data \cup {[id |-> seq.sensor_data + 1, sensor_id |-> sensorId,
                          value |-> value, timestamp |-> now]}

\* INSERT INTO sensor_data (sensor_id, value) VALUES (?, ?): the table after
\* it; id and timestamp take their defaults
InsertSample(sensorId, value) ==
  sensor_data \cup {[id |-> seq.sensor_data + 1, sensor_id |-> sensorId,
                     value |-> value, timestamp |-> now]}

\* one turn of `for (const item of data)` up to the INSERT of insertSensorData;
\* value REAL NOT NULL makes the INSERT of a missing value throw, which the
\* handler's catch turns into a 500
LoopInsert ==
  /\ req.pc = "loop"
  /\ req.i <= Len(req.data)
  /\ LET item == req.data[req.i]
     IN IF ~ Accepts(req.snap, item)
        THEN /\ req' = [req EXCEPT !.i = @ + 1]
             /\ res' = NoResponse
             /\ UNCHANGED <<sensor_data, seq>>
        ELSE IF item.value = NULL
        THEN /\ req' = IdleReq
             /\ res' = Reply(req, 500, NULL, FALSE, FALSE)
             /\ UNCHANGED <<sensor_data, seq>>
        ELSE /\ \E s \in find(req.snap, item.sensor_name) :
                  /\ sensor_data' = InsertSample(s.id, item.value)
                  /\ req' = [req EXCEPT !.pc = "touch", !.row = seq.sensor_data + 1,
                                        !.sensor_id = s.id]
             /\ seq' = [seq EXCEPT !.sensor_data = @ + 1]
             /\ res' = NoResponse
  /\ inbox' = Quiet
  /\ lastQuery' = NoQuery
  /\ UNCHANGED <<posts, settings, field, accounts>>
  /\ UNCHANGED <<devices, sensors, modbus_maps, now, clients, readyState>>

\* insertSensorData, second half: getSensorById and, when the sensor is still
\* there, UPDATE devices SET last_seen = CURRENT_TIMESTAMP
TouchDevice ==
  /\ req.pc = "touch"
  /\ LET found == getSensorById(req.sensor_id)
     IN IF found = {}
        THEN /\ devices' = devices
             /\ req' = [req EXCEPT !.pc = "fetch"]
        ELSE \E s \in found :
               /\ devices' = {IF d.id = s.device_id THEN [d EXCEPT !.last_seen = now]
                              ELSE d : d \in devices}
               /\ req' = [req EXCEPT !.pc = "fetch", !.writes = @ + 1]
  /\ res' = NoResponse
  /\ inbox' = Quiet
  /\ lastQuery' = NoQuery
  /\ UNCHANGED <<posts, settings, field, accounts>>
  /\ UNCHANGED <<sensors, modbus_maps, sensor_data, seq, now, clients, readyState>>

\* what SELECT * FROM sensor_data WHERE id = ? gives when the row is gone
NoRow == [id |-> NULL]

\* insertSensorData, the closing SELECT (the columns of sensor_data: id,
\* sensor_id, value, timestamp), and results.push(sensorData)
FetchRow ==
  /\ req.pc = "fetch"
  /\ LET got == IF \E r \in sensor_data : r.id = req.row
                THEN CHOOSE r \in sensor_data : r.id = req.row
                ELSE NoRow
     IN req' = [req EXCEPT !.pc = "loop", !.i = @ + 1, !.row = NULL, !.sensor_id = NULL,
                           !.results = Append(@, got)]
  /\ res' = NoResponse
  /\ inbox' = Quiet
  /\ lastQuery' = NoQuery
  /\ UNCHANGED <<posts, settings, field, accounts>>
  /\ UNCHANGED <<store, now, clients, readyState>>

\* after the loop: broadcast({type: 'sensor_data', ...}) and res.json, both
\* inside the try block, so a send that throws ends in the catch (500)
Respond ==
  /\ req.pc = "loop"
  /\ req.i > Len(req.data)
  /\ \E k \in SendOutcomes :
       /\ inbox' = broadcast([type |-> "sensor_data", device_name |-> req.device_name,
                              device_id |-> req.device_id, data |-> req.results], k)
       /\ res' = IF Threw(k)
                 THEN Reply(req, 500, NULL, TRUE, TRUE)
                 ELSE Reply(req, 200, Len(req.results), TRUE, FALSE)
  /\ req' = IdleReq
  /\ lastQuery' = NoQuery
  /\ UNCHANGED <<posts, settings, field, accounts>>
  /\ UNCHANGED <<store, now, clients, readyState>>

\* db.bulkInsertSensorData(dataArray) for an array of one element: the row is
\* stored with the timestamp the element carries (the current time when it
\* carries none), then last_seen of the sensor's device is written
bulkInsertSensorData(sensorId, value, timestamp) ==
  /\ req.pc = "idle"
  /\ seq.sensor_data < MaxSamples
  /\ sensor_data' = sensor_data \cup
       {[id |-> seq.sensor_data + 1, sensor_id |-> sensorId, value |-> value,
         timestamp |-> IF timestamp = NULL THEN now ELSE timestamp]}
  /\ seq' = [seq EXCEPT !.sensor_data = @ + 1]
  /\ devices' = {IF \E s \in getSensorById(sensorId) : s.device_id = d.id
                 THEN [d EXCEPT !.last_seen = now] ELSE d : d \in devices}
  /\ inbox' = Quiet
  /\ lastQuery' = NoQuery
  /\ UNCHANGED <<posts, settings, field, accounts>>
  /\ res' = NoResponse
  /\ UNCHANGED <<sensors, modbus_maps, now, clients, readyState, req>>

\* ---------------------------------------------------------------- queries
\* req.user of an authenticated request: the default administrator, or a
\* registered user of one organization
Callers ==
  {[role |-> "admin", organization_id |-> 1]} \cup
  {[role |-> "user", organization_id |-> o] : o \in Orgs}

\* const organizationId = req.user.role === 'admin' ? null : req.user.organization_id
ScopeOf(user) == IF user.role = "admin" THEN NULL ELSE user.organization_id

\* `limit = 1000` of getSensorData and of the route
DefaultLimit == 1000

\* limit: 1000000 of the export route
ExportLimit == 1000000

\* the query strings of the callers: every filter present or absent
Filters(dates, limits) ==
  [deviceId : {NULL} \cup (1..MaxDevices), sensorId : {NULL} \cup (1..MaxSensors),
   start_date : {NULL} \cup dates, end_date : {NULL} \cup dates, limit : limits]

\* the statement with its `AND d.organization_id = ?` lost
SelectedUnscoped(organizationId, f) ==
  {x \in sensor_data :
     /\ f.deviceId # NULL =>
          \E s \in sensors : s.id = x.sensor_id /\ s.device_id = f.deviceId
     /\ f.sensorId # NULL => x.sensor_id = f.sensorId
     /\ f.start_date # NULL => x.timestamp >= f.start_date
     /\ f.end_date # NULL => x.timestamp <= f.end_date}

\* FROM sensor_data sd LEFT JOIN sensors s LEFT JOIN devices d WHERE 1=1 plus
\* one AND per filter that is present; a comparison with a NULL column is not true
Selected(organizationId, f) ==
  {x \in sensor_data :
     /\ organizationId # NULL =>
          \E s \in sensors, d \in devices :
            s.id = x.sensor_id /\ d.id = s.device_id /\ d.organization_id = organizationId
     /\ f.deviceId # NULL =>
          \E s \in sensors : s.id = x.sensor_id /\ s.device_id = f.deviceId
     /\ f.sensorId # NULL => x.sensor_id = f.sensorId
     /\ f.start_date # NULL => x.timestamp >= f.start_date
     /\ f.end_date # NULL => x.timestamp <= f.end_date}

Min(a, b) == IF a < b THEN a ELSE b

\* ORDER BY sd.timestamp DESC LIMIT ?: every result the statement may return
\* (rows of equal timestamp come in any order); SQLite reads a negative LIMIT
\* as no limit
getSensorData(organizationId, f) ==
  LET all == Selected(organizationId, f)
  IN {T \in SUBSET all :
        /\ Cardinality(T) = IF f.limit < 0 THEN Cardinality(all)
                            ELSE Min(f.limit, Cardinality(all))
        /\ \A t \in T, u \in all \ T : t.timestamp >= u.timestamp}

RECURSIVE Sum(_)
Sum(rows) ==
  IF rows = {} THEN 0
  ELSE LET x == CHOOSE y \in rows : TRUE IN x.value + Sum(rows \ {x})

\* the statement with its GROUP BY sd.sensor_id lost: one aggregate over all
getStatisticsUngrouped(organizationId, f) ==
  LET all == Selected(organizationId, f)
  IN IF all = {} THEN {}
     ELSE {[sensor_id |-> (CHOOSE x \in all : TRUE).sensor_id,
            total_records |-> Cardinality(all),
            sum_value |-> Sum(all),
            max_value |-> (CHOOSE x \in all : \A y \in all : y.value <= x.value).value,
            min_value |-> (CHOOSE x \in all : \A y \in all : y.value >= x.value).value]}

\* SELECT COUNT(*), AVG, MAX, MIN ... GROUP BY sd.sensor_id; AVG is kept as
\* the sum it divides by the count
getStatistics(organizationId, f) ==
  LET all == Selected(organizationId, f)
  IN {[sensor_id |-> sid,
       total_records |-> Cardinality({x \in all : x.sensor_id = sid}),
       sum_value |-> Sum({x \in all : x.sensor_id = sid}),
       max_value |-> CHOOSE v \in {x.value : x \in all} :
                       /\ \E x \in all : x.sensor_id = sid /\ x.value = v
                       /\ \A x \in all : x.sensor_id = sid => x.value <= v,
       min_value |-> CHOOSE v \in {x.value : x \in all} :
                       /\ \E x \in all : x.sensor_id = sid /\ x.value = v
                       /\ \A x \in all : x.sensor_id = sid => x.value >= v]
      : sid \in {x.sensor_id : x \in all}}

\* sd INNER JOIN sensors s WHERE s.device_id = ? AND s.is_active = 1 AND sd.id
\* IN (SELECT MAX(id) ... GROUP BY sensor_id)
getLatestSensorData(deviceId) ==
  {x \in sensor_data :
     /\ \E s \in sensors : s.id = x.sensor_id /\ s.device_id = deviceId /\ s.is_active = 1
     /\ \A y \in sensor_data : y.sensor_id = x.sensor_id => y.id <= x.id}

Answer(kind, user, f, rows) ==
  /\ lastQuery' = [kind |-> kind, caller |-> user, filter |-> f, rows |-> rows]
  /\ UNCHANGED <<posts, settings, field, accounts>>
  /\ res' = NoResponse
  /\ inbox' = Quiet
  /\ UNCHANGED <<store, now, clients, readyState, req>>

\* GET /api/sensor-data
RangeQuery(user, f) ==
  \E rows \in getSensorData(ScopeOf(user), f) : Answer("range", user, f, rows)

\* s.sensor_name, s.unit and d.name of a row through the LEFT JOINs: no value
\* (SQL NULL) when the sensor or the device row is missing; the sensors of
\* the model are created without a unit
JoinedSensorName(x) == {s.sensor_name : s \in {t \in sensors : t.id = x.sensor_id}}

JoinedDeviceName(x) ==
  {d.name : d \in {e \in devices :
                     \E s \in sensors : s.id = x.sensor_id /\ s.device_id = e.id}}

JoinedUnit(x) == {}

\* `${v}` in a template literal: null becomes the text "null"
TemplateText(v) == IF v = {} THEN "null" ELSE CHOOSE t \in v : TRUE

\* `${v || ''}`
TextOrEmpty(v) == IF v = {} THEN "" ELSE CHOOSE t \in v : TRUE

\* the line of the CSV body for one row
CsvLine(x) ==
  [timestamp |-> x.timestamp, device_name |-> TemplateText(JoinedDeviceName(x)),
   sensor_name |-> TemplateText(JoinedSensorName(x)), value |-> x.value,
   unit |-> TextOrEmpty(JoinedUnit(x))]

\* GET /api/export/csv: the same statement with the export limit, rendered
ExportCsv(user, f) ==
  \E rows \in getSensorData(ScopeOf(user), f) :
    /\ lastQuery' = [kind |-> "export", caller |-> user, filter |-> f, rows |-> rows,
                     csv |-> {CsvLine(x) : x \in rows}]
    /\ UNCHANGED <<posts, settings, field, accounts>>
    /\ res' = NoResponse
    /\ inbox' = Quiet
    /\ UNCHANGED <<store, now, clients, readyState, req>>

\* GET /api/statistics
Statistics(user, f) == Answer("statistics", user, f, getStatistics(ScopeOf(user), f))

OnlyDevice(deviceId) ==
  [deviceId |-> deviceId, sensorId |-> NULL, start_date |-> NULL, end_date |-> NULL,
   limit |-> NULL]

\* GET /api/devices/:deviceId/latest: no authMiddleware, req.user is never read
GetLatest(user, deviceId) ==
  Answer("latest", user, OnlyDevice(deviceId), getLatestSensorData(deviceId))

\* GET /api/devices/:deviceId/sensors
GetSensorsOfDevice(user, deviceId) ==
  Answer("sensors", user, OnlyDevice(deviceId), getSensorsByDevice(deviceId))

\* GET /api/devices/:deviceId/modbus-maps
GetMapsOfDevice(user, deviceId) ==
  Answer("maps", user, OnlyDevice(deviceId), getModbusMapsByDevice(deviceId))

\* the read requests, for the callers and query strings in use
Reads(callers, filters) ==
  \/ \E u \in callers, f \in filters : RangeQuery(u, f)
  \/ \E u \in callers, f \in filters : ExportCsv(u, [f EXCEPT !.limit = ExportLimit])
  \/ \E u \in callers, f \in filters : Statistics(u, [f EXCEPT !.limit = NULL])
  \/ \E u \in callers, d \in 1..MaxDevices : GetLatest(u, d)

DeviceReads(callers) ==
  \/ \E u \in callers, d \in 1..MaxDevices : GetSensorsOfDevice(u, d)
  \/ \E u \in callers, d \in 1..MaxDevices : GetMapsOfDevice(u, d)

Ingest(bodies) ==
  \/ \E body \in bodies : Receive(body)
  \/ GetDevice
  \/ GetSensors
  \/ LoopInsert
  \/ TouchDevice
  \/ FetchRow
  \/ Respond

\* the management requests, for the (device name, caller organization) pairs,
\* the :deviceId path parameters and the sensor names the callers use
Catalog(registrations, deviceIds, sensorNames) ==
  \/ \E r \in registrations : UpsertDevice(r[1], r[2])
  \/ \E id \in deviceIds : DeleteDevice(id)
  \/ \E d \in deviceIds, n \in sensorNames : CreateSensor(d, n)
  \/ \E id \in 1..MaxSensors, n \in sensorNames, a \in {0, 1} : UpdateSensor(id, n, a)
  \/ \E id \in 1..MaxSensors : DeleteSensor(id)

Maps == \E s \in 1..MaxSensors : InsertModbusMap(s)

\* the connection events of a set of sockets
BusOf(sockets) ==
  \/ \E c \in sockets : Connect(c)
  \/ \E c \in sockets : Disconnect(c)
  \/ \E c \in sockets : OnClose(c)

Bus == BusOf(Clients)

Next ==
  \/ Tick
  \/ Catalog(DeviceNames \X Orgs, 1..MaxDevices, SensorNames)
  \/ Maps
  \/ Bus
  \/ Reads(Callers, Filters(0..MaxClock, {1, DefaultLimit}))
  \/ DeviceReads(Callers)
  \/ Ingest(Bodies(DeviceNames, Values))

Spec == Init /\ [][Next]_vars

\* the ingestion pipeline with its catalog and its subscribers: one device
\* name that gets registered, one that never is
NextIngest ==
  Catalog({<<"D1", 1>>}, {1}, SensorNames) \/ BusOf({1}) \/ Ingest(Bodies(DeviceNames, {5}))

SpecIngest == Init /\ [][NextIngest]_vars

\* one reading of the radiation sensor, from either device
OneReading ==
  {[device_name |-> n, has_data |-> TRUE,
    data |-> <<[sensor_name |-> "RAD", value |-> 5]>>] : n \in DeviceNames}

\* the tenant-scoped readers over the store of two tenants with a device each,
\* the requests served one at a time
\* (a read changes nothing, so reads are taken from the states other steps reach)
NextQuery ==
  \/ /\ req.pc = "idle"
     /\ Catalog({<<"D1", 1>>, <<"D2", 2>>}, 1..MaxDevices, {"RAD"})
  \/ /\ req.pc = "idle"
     /\ lastQuery = NoQuery
     /\ Reads(Callers, Filters({}, {DefaultLimit}))
  \/ Ingest(OneReading)

SpecQuery == Init /\ [][NextQuery]_vars

Admin == [role |-> "admin", organization_id |-> 1]

\* the query string with no filter at all
Unfiltered ==
  [deviceId |-> NULL, sensorId |-> NULL, start_date |-> NULL, end_date |-> NULL,
   limit |-> DefaultLimit]

\* readers that run between the awaits of a submission
NextReaders ==
  \/ Catalog({<<"D1", 1>>}, {1}, SensorNames)
  \/ Ingest(Bodies({"D1"}, {5}))
  \/ lastQuery = NoQuery /\ Reads({Admin}, {Unfiltered})

SpecReaders == Init /\ [][NextReaders]_vars

\* the filters by device of an administrator's query string
ByDevice == {[Unfiltered EXCEPT !.deviceId = d] : d \in 1..MaxDevices}

\* devices registered, configured, fed and deleted, the requests served one
\* at a time, and every read that names a device
NextCascade ==
  \/ /\ req.pc = "idle"
     /\ Catalog({<<"D1", 1>>, <<"D2", 1>>}, 1..MaxDevices, {"RAD"}) \/ Maps
  \/ /\ req.pc = "idle"
     /\ lastQuery = NoQuery
     /\ Reads({Admin}, ByDevice) \/ DeviceReads({Admin})
  \/ Ingest(OneReading)

SpecCascade == Init /\ [][NextCascade]_vars

\* the management requests that end in the route's catch
Rejections(deviceIds, sensorNames) ==
  \/ \E d \in deviceIds, n \in sensorNames : CreateSensorRejected(d, n)
  \/ \E id \in 1..MaxSensors, n \in sensorNames, a \in {0, 1} :
       UpdateSensorRejected(id, n, a)

\* the management routes alone, the rejected requests included
NextCatalog ==
  \/ Catalog(DeviceNames \X {1}, 1..MaxDevices, SensorNames)
  \/ lastQuery = NoQuery /\ Rejections(1..MaxDevices, SensorNames)
  \/ Maps

SpecCatalog == Init /\ [][NextCatalog]_vars

\* Samples stored with the timestamps their producer gives them, and the
\* latest-by-device read
NextLatest ==
  \/ Catalog({<<"D1", 1>>}, {1}, {"RAD"})
  \/ \E sid \in 1..MaxSensors, ts \in {NULL} \cup (0..MaxClock) :
       bulkInsertSensorData(sid, 5, ts)
  \/ Tick
  \/ lastQuery = NoQuery /\ GetLatest(Admin, 1)

SpecLatest == Init /\ [][NextLatest]_vars

\* the `limit` query parameters in use: parseInt(limit) of any integer string
Limits == {-1, 0, 1, DefaultLimit}

\* the range query over the Samples of one device, stored at different times
NextRange ==
  \/ UpsertDevice("D1", 1)
  \/ \E n \in SensorNames : CreateSensor(1, n)
  \/ Tick
  \/ Ingest(OneReading)
  \/ /\ lastQuery = NoQuery
     /\ \E f \in Filters(0..MaxClock, Limits) : RangeQuery(Admin, f)

SpecRange == Init /\ [][NextRange]_vars

\* one reading of either sensor, of either value, for the first device
TwoValues ==
  {[device_name |-> "D1", has_data |-> TRUE,
    data |-> <<[sensor_name |-> n, value |-> v]>>] : n \in SensorNames, v \in Values}

\* the statistics of every caller over the Samples of two sensors, the
\* requests served one at a time
NextStats ==
  \/ UpsertDevice("D1", 1)
  \/ \E n \in SensorNames : CreateSensor(1, n)
  \/ Tick
  \/ Ingest(TwoValues)
  \/ /\ req.pc = "idle"
     /\ lastQuery = NoQuery
     /\ \E u \in Callers, f \in Filters(0..MaxClock, {NULL}) : Statistics(u, f)

SpecStats == Init /\ [][NextStats]_vars

\* the subscribers coming and going while events of both kinds are published
NextBus ==
  \/ Bus
  \/ UpsertDevice("D1", 1)
  \/ CreateSensor(1, "RAD")
  \/ Ingest(OneReading)

SpecBus == Init /\ [][NextBus]_vars

\* the second subscriber arrives while another one is in the set, so that a
\* set holding the second one alone is a set the first one has left
NextLifecycle ==
  \/ Connect(1)
  \/ Len(clients) > 0 /\ Connect(2)
  \/ \E c \in Clients : Disconnect(c)
  \/ \E c \in Clients : OnClose(c)
  \/ UpsertDevice("D1", 1)
  \/ CreateSensor(1, "RAD")
  \/ Ingest(OneReading)

SpecLifecycle == Init /\ [][NextLifecycle]_vars

\* two connections posting devices at the same time, step by step
\* the value of a PUT /api/settings/:key body; NoValue is a body without one
SettingValues == {"300", "600"}

NoValue == "<undefined>"

\* getSetting: SELECT * FROM settings WHERE key = ?
getSetting(rows, key) == {r \in rows : r.key = key}

\* updateSetting: INSERT OR REPLACE INTO settings (key, value, updated_at); the
\* row of the key is deleted and a new one inserted, whose description, not in
\* the column list, is NULL
updateSetting(key, value) ==
  {r \in settings : r.key # key} \cup
  {[key |-> key, value |-> value, description |-> {}, updated_at |-> now]}

\* PUT /api/settings/:key: updateSetting, broadcast of setting_update, the
\* setting as response; value is NOT NULL, a body without one fails the
\* statement, and a throwing send fails the request after the write
PutSetting(key, value, k) ==
  /\ req = IdleReq
  /\ settings' = IF value = NoValue THEN settings ELSE updateSetting(key, value)
  /\ inbox' = IF value = NoValue THEN Quiet
              ELSE broadcast([type |-> "setting_update",
                              data |-> getSetting(settings', key)], k)
  /\ lastQuery' = [kind |-> "updateSetting",
                   status |-> IF value = NoValue \/ Threw(k) THEN 500 ELSE 200,
                   rows |-> {}, filter |-> [key |-> key, value |-> value],
                   setting |-> IF value = NoValue \/ Threw(k) THEN {}
                               ELSE getSetting(settings', key)]
  /\ res' = NoResponse
  /\ UNCHANGED <<store, now, clients, readyState, req, posts, field, accounts>>

\* a restart of the server: db.initialize() runs insertDefaultSettings on the
\* database file as it is; connections and requests in flight are gone
initialize ==
  /\ settings' = Seeded(settings)
  /\ clients' = <<>>
  /\ readyState' = [c \in Clients |-> "CLOSED"]
  /\ req' = IdleReq
  /\ posts' = [p \in Posters |-> IdlePost]
  /\ inbox' = Quiet
  /\ res' = NoResponse
  /\ lastQuery' = [kind |-> "initialize", status |-> 200, rows |-> {},
                   filter |-> [key |-> ""]]
  /\ UNCHANGED <<store, now, field>>
  /\ accounts' = [accounts EXCEPT !.regs = [p \in Posters |-> IdleReg]]

\* the management of settings across restarts, with one subscriber
NextSettings ==
  \/ \E key \in SettingKeys, value \in SettingValues \cup {NoValue}, k \in SendOutcomes :
       PutSetting(key, value, k)
  \/ initialize
  \/ BusOf({1})
  \/ Tick

SpecSettings == Init /\ [][NextSettings]_vars

\* POST /api/sensor-data of the fixed-field server, on this database:
\* upsertDevice(device_name) has no organizationId and throws for a name
\* that has no device; for a device that exists it sets last_seen, and
\* insertSensorData(device_name, radiation, ...) inserts a row whose sensor_id
\* is the device name and whose value is the radiation (NOT NULL), with no
\* sensor of that id to touch a device for; then broadcast and response
PostSensorDataFixed(device_name, radiation, k) ==
  LET existing == getDeviceByName(device_name)
      stored == device_name # "" /\ existing # {} /\ radiation # NULL
      data == [id |-> seq.sensor_data + 1, sensor_id |-> device_name,
               value |-> radiation, timestamp |-> now]
      status == IF device_name = "" THEN 400
                ELSE IF ~ stored \/ Threw(k) THEN 500 ELSE 200
  IN /\ req = IdleReq
     /\ seq.sensor_data < MaxSamples
     /\ devices' = IF device_name = "" THEN devices
                   ELSE {IF d.name = device_name THEN [d EXCEPT !.last_seen = now] ELSE d
                           : d \in devices}
     /\ sensor_data' = IF stored THEN sensor_data \cup {data} ELSE sensor_data
     /\ seq' = IF stored THEN [seq EXCEPT !.sensor_data = @ + 1] ELSE seq
     /\ inbox' = IF stored THEN broadcast([type |-> "sensor_data", data |-> data], k)
                 ELSE Quiet
     /\ lastQuery' = [kind |-> "sensorDataFixed", status |-> status, rows |-> {},
                      filter |-> [device_name |-> device_name, radiation |-> radiation],
                      data |-> IF status = 200 THEN {data} ELSE {}]
     /\ res' = NoResponse
     /\ UNCHANGED <<sensors, modbus_maps, now, clients, readyState, req, posts, settings, field, accounts>>

\* the fixed-field ingestion next to the management of devices
NextFixed ==
  \/ \E name \in DeviceNames \cup {""}, radiation \in Values \cup {NULL}, k \in SendOutcomes :
       PostSensorDataFixed(name, radiation, k)
  \/ \E name \in DeviceNames, o \in Orgs : UpsertDevice(name, o)
  \/ \E id \in 1..MaxDevices : DeleteDevice(id)
  \/ BusOf({1})
  \/ Tick

SpecFixed == Init /\ [][NextFixed]_vars

\* the Modbus slave's register at an address takes a new 16-bit content
SetRegister(address, r) ==
  /\ field' = [field EXCEPT !.registers[address] = r % Word]
  /\ inbox' = Quiet
  /\ lastQuery' = NoQuery
  /\ res' = NoResponse
  /\ UNCHANGED <<store, now, clients, readyState, req, posts, settings, accounts>>

\* the return statement of readModbusSensor on success, in tenths:
\* (rawValue * scale) + offset with rawValue a uint16_t
decode(rawValue, scale, offset) == ((rawValue % Word) * scale) + offset

\* readModbusSensor: one holding register is read; on success the value is
\* decode of the response buffer, on a Modbus error it is 0.0
readModbusSensor(address, scale, offset, success) ==
  /\ field' = [field EXCEPT !.read =
       [ok |-> success, address |-> address,
        rawValue |-> field.registers[address], scale |-> scale, offset |-> offset,
        value |-> IF success THEN decode(field.registers[address], scale, offset)
                  ELSE 0]]
  /\ inbox' = Quiet
  /\ lastQuery' = NoQuery
  /\ res' = NoResponse
  /\ UNCHANGED <<store, now, clients, readyState, req, posts, settings, accounts>>

\* the field unit reading its sensors
NextDecode ==
  \/ \E a \in Addresses, r \in RawValues : SetRegister(a, r)
  \/ \E a \in Addresses, scale \in Scales, offset \in Offsets, success \in BOOLEAN :
       readModbusSensor(a, scale, offset, success)

SpecDecode == Init /\ [][NextDecode]_vars

\* the defaults of the route: scale_factor || 1.0 and offset || 0.0
DefaultScale == 1

DefaultOffset == 0

\* JavaScript's !v for a number of a request body: undefined (NULL here) and 0
Falsy(v) == v = NULL \/ v = 0

\* the bodies of POST /api/sensors/:sensorId/modbus-map: a field is absent
\* (NULL, "" for a text), zero or another value
MapBodies ==
  [modbus_address : {NULL, 0, 1}, register_type : {"", "holding"},
   data_type : {"", "int16"}, scale_factor : {NULL, 0, 2}, offset : {NULL, 0, 5}]

\* POST /api/sensors/:sensorId/modbus-map for an authenticated caller: 400
\* when !modbus_address, !register_type or !data_type; otherwise
\* insertModbusMap with scale_factor || 1.0 and offset || 0.0, and the row
\* as response
PostModbusMap(sensorId, body) ==
  LET rejected == Falsy(body.modbus_address) \/ body.register_type = ""
                    \/ body.data_type = ""
      map == [id |-> seq.modbus_maps + 1, sensor_id |-> sensorId,
              modbus_address |-> body.modbus_address,
              register_type |-> body.register_type, data_type |-> body.data_type,
              scale_factor |-> IF Falsy(body.scale_factor) THEN DefaultScale
                               ELSE body.scale_factor,
              offset |-> IF Falsy(body.offset) THEN DefaultOffset ELSE body.offset]
  IN /\ req = IdleReq
     /\ seq.modbus_maps < MaxMaps
     /\ foreign_keys => \E s \in sensors : s.id = sensorId
     /\ modbus_maps' = IF rejected THEN modbus_maps ELSE modbus_maps \cup {map}
     /\ seq' = IF rejected THEN seq ELSE [seq EXCEPT !.modbus_maps = @ + 1]
     /\ lastQuery' = [kind |-> "insertModbusMap",
                      status |-> IF rejected THEN 400 ELSE 200,
                      rows |-> IF rejected THEN {} ELSE {map},
                      filter |-> [sensorId |-> sensorId, body |-> body]]
     /\ inbox' = Quiet
     /\ res' = NoResponse
     /\ UNCHANGED <<devices, sensors, sensor_data, now, clients, readyState, req,
                    posts, settings, field, accounts>>

\* the creation of decoding configurations for the sensors of one device
NextMaps ==
  \/ \E s \in sensors, body \in MapBodies : PostModbusMap(s.id, body)
  \/ \E n \in SensorNames : CreateSensor(1, n)
  \/ UpsertDevice("D1", 1)

SpecMaps == Init /\ [][NextMaps]_vars

\* the bodies that create a configuration: address, register type and data
\* type present
Configurations ==
  {b \in MapBodies : b.modbus_address = 1 /\ b.register_type = "holding"
                       /\ b.data_type = "int16"}

\* the ingestion of one reading for sensors that have decoding configurations
NextConvert ==
  \/ req.pc = "idle" /\ UpsertDevice("D1", 1)
  \/ req.pc = "idle" /\ CreateSensor(1, "RAD")
  \/ \E s \in sensors, body \in Configurations : PostModbusMap(s.id, body)
  \/ Ingest({b \in OneReading : b.device_name = "D1"})

SpecConvert == Init /\ [][NextConvert]_vars

\* the time from the last attempt to the end of a loop iteration of length d,
\* counted up to SendInterval
Since(attempt, d) ==
  IF attempt THEN Min(d, SendInterval) ELSE Min(field.sinceAttempt + d, SendInterval)

\* loop of the sensor client, one iteration that takes d delays: without
\* Ethernet initEthernet is retried and the iteration ends; otherwise, when
\* currentTime - lastSendTime >= sendInterval or lastSendTime == 0, lastSendTime
\* becomes currentTime, readSensorData reads the registers and, if it
\* succeeded, sendDataToServer posts radiation and temperature1 (in tenths)
loop_sensor_client(d, dhcp, readOk, connectOk) ==
  LET currentTime == field.millis
      due == (currentTime - field.lastSendTime) % MillisWrap >= SendInterval
               \/ field.lastSendTime = 0
      attempt == field.ethernetConnected /\ due
      radiation == IF attempt /\ readOk THEN decode(field.registers[40001], 10, 0)
                   ELSE field.radiation
      temperature1 == IF attempt /\ readOk THEN decode(field.registers[40002], 1, 0)
                      ELSE field.temperature1
  IN /\ field' = [field EXCEPT
          !.millis = (@ + d) % MillisWrap,
          !.ethernetConnected = IF @ THEN TRUE ELSE dhcp,
          !.lastSendTime = IF attempt THEN currentTime ELSE @,
          !.radiation = radiation,
          !.temperature1 = temperature1,
          !.attempted = @ \/ attempt,
          !.sinceAttempt = Since(attempt, d),
          !.outcome = IF ~ attempt THEN "none"
                      ELSE IF ~ readOk THEN "read failed"
                      ELSE IF ~ connectOk THEN "connection failed" ELSE "sent",
          !.sent = IF attempt /\ readOk /\ connectOk
                   THEN <<[sensor_name |-> "radiation", value |-> radiation, ok |-> TRUE],
                          [sensor_name |-> "temperature1", value |-> temperature1,
                           ok |-> TRUE]>>
                   ELSE <<>>]
     /\ inbox' = Quiet
     /\ lastQuery' = NoQuery
     /\ res' = NoResponse
     /\ UNCHANGED <<store, now, clients, readyState, req, posts, settings, accounts>>

\* the sensor client running next to its Modbus slave
NextClient ==
  \/ \E d \in {1, 2}, dhcp \in BOOLEAN, readOk \in BOOLEAN, connectOk \in BOOLEAN :
       loop_sensor_client(d, dhcp, readOk, connectOk)
  \/ \E a \in Addresses, r \in {0, 452} : SetRegister(a, r)

SpecClient == Init /\ [][NextClient]_vars

\* the value readModbusSensor returns for an address: decode of the register
\* on success, 0.0 on a Modbus error
Reading(sensorName, address, scale, success) ==
  [sensor_name |-> sensorName, ok |-> success,
   value |-> IF success THEN decode(field.registers[address], scale, 0) ELSE 0]

\* loop of the Modbus unit, one iteration that takes d delays: the link
\* coming up sets eth_connected; when millis() - lastDataSend >= dataInterval,
\* sendSensorData reads RADIATION (scale 1.0) and TEMPERATURE1 (scale 0.1),
\* posts both values whatever the reads returned, and lastDataSend becomes
\* millis()
loop_solar_modbus(d, linkUp, ok1, ok2, httpOk) ==
  LET connected == field.eth_connected \/ linkUp
      due == connected /\ (field.millis - field.lastDataSend) % MillisWrap >= SendInterval
      data == <<Reading("RADIATION", 40001, 10, ok1),
                Reading("TEMPERATURE1", 40002, 1, ok2)>>
  IN /\ field' = [field EXCEPT
          !.millis = (@ + d) % MillisWrap,
          !.eth_connected = connected,
          !.lastDataSend = IF due THEN field.millis ELSE @,
          !.read = IF due
                   THEN [ok |-> ok2, address |-> 40002,
                         rawValue |-> field.registers[40002], scale |-> 1,
                         offset |-> 0, value |-> data[2].value]
                   ELSE @,
          !.attempted = @ \/ due,
          !.sinceAttempt = Since(due, d),
          !.outcome = IF ~ due THEN "none"
                      ELSE IF httpOk THEN "sent" ELSE "connection failed",
          !.sent = IF due /\ httpOk THEN data ELSE <<>>]
     /\ inbox' = Quiet
     /\ lastQuery' = NoQuery
     /\ res' = NoResponse
     /\ UNCHANGED <<store, now, clients, readyState, req, posts, settings, accounts>>

\* the Modbus unit running next to its Modbus slave
NextModbus ==
  \/ \E d \in {1, 2}, linkUp \in BOOLEAN, ok1 \in BOOLEAN, ok2 \in BOOLEAN,
        httpOk \in BOOLEAN :
       loop_solar_modbus(d, linkUp, ok1, ok2, httpOk)
  \/ \E a \in Addresses, r \in {0, 452} : SetRegister(a, r)

SpecModbus == Init /\ [][NextModbus]_vars

\* two tenants managing the catalog one after the other: at time 0 the user
\* of organization 1 registers D1, its sensors and their configurations; from
\* time 1 on every call is made by the non-admin user of organization 2,
\* whose req.user.organization_id is 2
NextTenants ==
  \/ now = 0 /\ UpsertDevice("D1", 1)
  \/ now = 0 /\ \E n \in SensorNames : CreateSensor(1, n)
  \/ now = 0 /\ \E sn \in sensors : InsertModbusMap(sn.id)
  \/ Tick
  \/ now = 1 /\ Catalog(DeviceNames \X {2}, 1..MaxDevices, SensorNames)
  \/ now = 1 /\ Maps

SpecTenants == Init /\ [][NextTenants]_vars

\* getLatestSensorDataBySensorId: the rows ORDER BY sd.timestamp DESC LIMIT 1
\* may return for a sensor that exists: any row of the sensor with the
\* greatest timestamp
getLatestSensorDataBySensorId(sensorId) ==
  {x \in sensor_data :
     /\ x.sensor_id = sensorId
     /\ \E sn \in sensors : sn.id = sensorId
     /\ \A y \in sensor_data : y.sensor_id = sensorId => y.timestamp <= x.timestamp}

\* GET /api/sensors/:sensorId/latest: the row, or 404 without one
GetLatestBySensor(user, sensorId) ==
  LET found == getLatestSensorDataBySensorId(sensorId)
      f == [OnlyDevice(NULL) EXCEPT !.sensorId = sensorId]
  IN IF found = {} THEN Answer("latestBySensor", user, f, {})
     ELSE \E x \in found : Answer("latestBySensor", user, f, {x})

\* both latest queries on a store filled in and out of timestamp order
NextLatestPair ==
  \/ NextLatest
  \/ lastQuery = NoQuery /\ \E sid \in 1..MaxSensors : GetLatestBySensor(Admin, sid)

SpecLatestPair == Init /\ [][NextLatestPair]_vars

\* sensors renamed by PUT /api/sensors/:id with a body that has no is_active
\* (undefined, bound as NULL), next to the ingestion of readings for them
NextUpdate ==
  \/ req.pc = "idle" /\ UpsertDevice("D1", 1)
  \/ req.pc = "idle" /\ \E n \in SensorNames : CreateSensor(1, n)
  \/ \E id \in 1..MaxSensors, n \in SensorNames : UpdateSensor(id, n, NULL)
  \/ \E id \in 1..MaxSensors, n \in SensorNames : UpdateSensorRejected(id, n, NULL)
  \/ Ingest({b \in OneReading : b.device_name = "D1"})

SpecUpdate == Init /\ [][NextUpdate]_vars

\* the registrations tried: two emails and two organization names; "" is a
\* missing field
Emails == {"a@x.io", "b@x.io"}

OrganizationNames == {"Acme", "Beta"}

\* a step of a registration: its connection's state changes, and with it
\* the tables given
RegStep(p, next, organizations, users, seqs) ==
  /\ accounts' = [organizations |-> organizations, users |-> users, seq |-> seqs,
                  regs |-> [accounts.regs EXCEPT ![p] = next]]
  /\ inbox' = Quiet
  /\ lastQuery' = NoQuery
  /\ res' = NoResponse
  /\ UNCHANGED <<store, now, clients, readyState, req, posts, settings, field>>

\* the status a registration ends with, the tables as they are
RegDone(p, status) ==
  RegStep(p, [accounts.regs[p] EXCEPT !.pc = "done", !.status = status],
          accounts.organizations, accounts.users, accounts.seq)

\* POST /api/auth/register arrives: 400 for a missing field, otherwise the
\* handler awaits getUserByEmail
Register(p, email, organizationName) ==
  /\ accounts.regs[p].pc \in {"idle", "done"}
  /\ accounts.seq.organizations < MaxRegistrations + 1
  /\ LET r == [IdleReg EXCEPT !.email = email, !.organization_name = organizationName]
     IN IF email = "" \/ organizationName = ""
        THEN RegStep(p, [r EXCEPT !.pc = "done", !.status = 400],
                     accounts.organizations, accounts.users, accounts.seq)
        ELSE RegStep(p, [r EXCEPT !.pc = "getUserByEmail"],
                     accounts.organizations, accounts.users, accounts.seq)

\* getUserByEmail resolves: 400 'Email already registered', or on to
\* createOrganization
CheckEmail(p) ==
  /\ accounts.regs[p].pc = "getUserByEmail"
  /\ IF \E u \in accounts.users : u.email = accounts.regs[p].email
     THEN RegDone(p, 400)
     ELSE RegStep(p, [accounts.regs[p] EXCEPT !.pc = "createOrganization"],
                  accounts.organizations, accounts.users, accounts.seq)

\* createOrganization: INSERT INTO organizations; name is UNIQUE, a taken
\* name rejects and the handler answers 500
createOrganization(p) ==
  /\ accounts.regs[p].pc = "createOrganization"
  /\ IF \E o \in accounts.organizations : o.name = accounts.regs[p].organization_name
     THEN RegDone(p, 500)
     ELSE RegStep(p, [accounts.regs[p] EXCEPT !.pc = "createUser",
                        !.organization_id = accounts.seq.organizations + 1],
                  accounts.organizations \cup
                    {[id |-> accounts.seq.organizations + 1,
                      name |-> accounts.regs[p].organization_name]},
                  accounts.users,
                  [accounts.seq EXCEPT !.organizations = @ + 1])

\* createUser after hashPassword: INSERT INTO users; email is UNIQUE, a taken
\* email rejects and the handler answers 500; otherwise the user and a token
\* are the response
createUser(p) ==
  /\ accounts.regs[p].pc = "createUser"
  /\ IF \E u \in accounts.users : u.email = accounts.regs[p].email
     THEN RegDone(p, 500)
     ELSE RegStep(p, [accounts.regs[p] EXCEPT !.pc = "done", !.status = 200],
                  accounts.organizations,
                  accounts.users \cup
                    {[id |-> accounts.seq.users + 1, email |-> accounts.regs[p].email,
                      role |-> "user",
                      organization_id |-> accounts.regs[p].organization_id]},
                  [accounts.seq EXCEPT !.users = @ + 1])

\* registrations on two connections
NextRegister ==
  \/ \E p \in Posters, e \in Emails \cup {""}, n \in OrganizationNames \cup {""} :
       Register(p, e, n)
  \/ \E p \in Posters : CheckEmail(p)
  \/ \E p \in Posters : createOrganization(p)
  \/ \E p \in Posters : createUser(p)

SpecRegister == Init /\ [][NextRegister]_vars

\* the rows getSensorData answers in the fixed-field variant: a timestamp, a
\* device name and three measurement fields, each a number or NULL
FixedRows ==
  [timestamp : {0}, device_name : {"D1"}, radiation : Values \cup {NULL},
   temperature1 : Values \cup {NULL}, temperature2 : Values \cup {NULL}]

\* the text of a number in a template literal
NumberText(v) == IF v = 0 THEN "0" ELSE IF v = 5 THEN "5" ELSE "null"

\* ${v || ''}: the empty text for every falsy v, null and 0 alike
OrEmpty(v) == IF Falsy(v) THEN "" ELSE NumberText(v)

\* one line of the fixed-field export
CsvLineFixed(row) ==
  [timestamp |-> NumberText(row.timestamp), device_name |-> row.device_name,
   radiation |-> OrEmpty(row.radiation), temperature1 |-> OrEmpty(row.temperature1),
   temperature2 |-> OrEmpty(row.temperature2)]

\* GET /api/export/csv of the fixed-field server: one line per row of data
ExportCsvFixed(data) ==
  /\ lastQuery' = [kind |-> "exportFixed", status |-> 200, rows |-> data,
                   filter |-> [device_name |-> "D1"],
                   csv |-> [i \in 1..Len(data) |-> CsvLineFixed(data[i])]]
  /\ inbox' = Quiet
  /\ res' = NoResponse
  /\ UNCHANGED <<store, now, clients, readyState, req, posts, settings, field, accounts>>

\* exports of one or two rows
NextExportFixed ==
  \E data \in SeqsUpTo(FixedRows, 2) : data # <<>> /\ ExportCsvFixed(data)

SpecExportFixed == Init /\ [][NextExportFixed]_vars

NextUpsert ==
  \/ \E p \in Posters, name \in DeviceNames \cup {""}, o \in Orgs : PostDevice(p, name, o)
  \/ \E p \in Posters : UpsertLookup(p)
  \/ \E p \in Posters : UpsertWrite(p)
  \/ \E p \in Posters : UpsertRespond(p)
  \/ \E id \in 1..MaxDevices : DeleteDevice(id)
  \/ BusOf({1})
  \/ Tick

SpecUpsert == Init /\ [][NextUpsert]_vars

\* ================================================================ properties
\* the Samples the request answered by r has persisted: no other request
\* inserts while it runs, so they are the rows numbered from r.first on
BatchRows(r) == {x \in sensor_data : x.id >= r.first}

\* the readings of a request that name a sensor of its device that was active
\* when the handler read the device's sensors
ActiveReadings(r) ==
  {i \in 1..Len(r.data) :
     \E s \in r.snap : /\ s.device_id = r.device_id
                       /\ s.sensor_name = r.data[i].sensor_name
                       /\ s.is_active = 1}

WellFormed(r) == \A i \in ActiveReadings(r) : r.data[i].value # NULL

\* C3: a batch for a registered device that mixes readings of active sensors
\* with readings of unknown or inactive sensor names succeeds (given that each
\* reading of an active sensor carries a value and no subscriber's send throws):
\* one Sample per reading of an active sensor, none for the others, and the
\* returned count is the number of Samples persisted.
C3_PartialAcceptance ==
  res.status # 0 =>
    /\ res.status = 200 =>
         /\ res.inserted = Cardinality(BatchRows(res))
         /\ Cardinality(BatchRows(res)) = Cardinality(ActiveReadings(res))
         /\ \A x \in BatchRows(res) : \E i \in ActiveReadings(res), s \in res.snap :
              /\ s.id = x.sensor_id
              /\ s.sensor_name = res.data[i].sensor_name
              /\ x.value = res.data[i].value
    /\ (res.device_id # NULL /\ WellFormed(res) /\ ~ res.threw) => res.status = 200

\* a two-reading batch, one reading accepted and one dropped, answered 200
C3_Witness ==
  /\ res.status = 200
  /\ Len(res.data) = 2
  /\ Cardinality(ActiveReadings(res)) = 1
  /\ res.inserted = 1

\* C4: a request with an empty device name or with no reading at all (an
\* empty list included) is rejected and has no effect: nothing persisted, no
\* last_seen written, nothing broadcast.
C4_EmptyBatchRejected ==
  (res.status # 0 /\ (res.device_name = "" \/ res.data = <<>>)) =>
    /\ res.status # 200
    /\ ~ res.published
    /\ res.writes = 0
    /\ BatchRows(res) = {}

\* C5: the lookup of a device name that is not registered answers 404 and
\* changes nothing: no device created, no Sample persisted, nothing broadcast.
C5_UnknownDeviceNotFound ==
  [][(/\ req.pc = "getDevice"
      /\ req' # req
      /\ \A d \in devices : d.name # req.device_name)
     => (/\ res'.status = 404
         /\ devices' = devices
         /\ sensor_data' = sensor_data
         /\ inbox' = Quiet)]_vars

\* a batch with readings for a name that was never registered was answered 404
C5_Witness ==
  /\ res.status = 404
  /\ res.data # <<>>
  /\ \A d \in devices : d.name # res.device_name
  /\ devices # {}

\* C7: a batch that fails while its readings are being persisted leaves no
\* Sample of the batch behind and has not written last_seen.
C7_NoPartialEffects ==
  (res.status = 500 /\ ~ res.published) =>
    /\ BatchRows(res) = {}
    /\ res.writes = 0

\* C8: a batch that persists Samples writes its device's last_seen exactly
\* once, whatever the number of its readings (stated for a batch whose sensors
\* nobody changed while it ran).
C8_LastSeenOncePerBatch ==
  (res.status # 0 /\ BatchRows(res) # {} /\ res.snap \subseteq sensors) => res.writes = 1

\* C9: once the Samples are persisted the broadcast cannot change the outcome:
\* the caller gets the success result with the accepted count.
C9_BroadcastNeverFailsIngestion ==
  (res.status # 0 /\ res.published) =>
    /\ res.status = 200
    /\ res.inserted = Len(res.results)

\* the organization that owns the device of the sensor a row refers to
OwnedBy(sensorId, org) ==
  \E s \in sensors, d \in devices :
    s.id = sensorId /\ d.id = s.device_id /\ d.organization_id = org

Scoped == lastQuery.kind \in {"range", "statistics", "export"} /\ lastQuery.caller.role # "admin"

\* the filter names a device, or a sensor of a device, that another tenant owns
NamesForeign(f, org) ==
  \/ \E d \in devices : d.id = f.deviceId /\ d.organization_id # org
  \/ \E s \in sensors, d \in devices :
       s.id = f.sensorId /\ d.id = s.device_id /\ d.organization_id # org

\* C1: a range query, statistics query or CSV export of a tenant returns only
\* rows of Samples of devices that tenant owns, and nothing at all when its
\* filter names a device or sensor of another tenant.
C1_TenantScopedQueries ==
  Scoped =>
    /\ \A row \in lastQuery.rows : OwnedBy(row.sensor_id, lastQuery.caller.organization_id)
    /\ NamesForeign(lastQuery.filter, lastQuery.caller.organization_id) => lastQuery.rows = {}

\* a tenant asked for the Samples of another tenant's device, which has some,
\* and got none
C1_Witness ==
  /\ Scoped
  /\ lastQuery.kind = "range"
  /\ \E d \in devices : /\ d.id = lastQuery.filter.deviceId
                        /\ d.organization_id # lastQuery.caller.organization_id
                        /\ \E x \in sensor_data, s \in sensors :
                             s.id = x.sensor_id /\ s.device_id = d.id
  /\ lastQuery.rows = {}

\* C2: getLatest is tenant-scoped: a caller of one tenant gets no row of a
\* device that another tenant owns.
C2_LatestTenantScoped ==
  (lastQuery.kind = "latest" /\ lastQuery.caller.role # "admin") =>
    \A row \in lastQuery.rows : OwnedBy(row.sensor_id, lastQuery.caller.organization_id)

\* the readings of the request in flight that the loop has yet to insert and
\* that it will insert: they name an active sensor and carry a value
Pending(r) ==
  {j \in (IF r.pc = "loop" THEN r.i ELSE r.i + 1)..Len(r.data) :
     Accepts(r.snap, r.data[j]) /\ r.data[j].value # NULL}

\* C6: a range query that runs while a batch is being inserted sees none of
\* the Samples of that batch as long as the batch has Samples left to insert.
C6_BatchAtomicForReaders ==
  (lastQuery.kind = "range" /\ req.pc \in {"loop", "touch", "fetch"} /\ Pending(req) # {}) =>
    lastQuery.rows \cap BatchRows(req) = {}

\* a device id that was handed out and whose row is deleted
Gone(deviceId) == deviceId \in 1..seq.devices /\ \A d \in devices : d.id # deviceId

\* the device a returned row belongs to: a sensor row names it, any other row
\* names a sensor of it
OfGoneDevice(kind, row) ==
  IF kind = "sensors" THEN Gone(row.device_id)
  ELSE \E s \in sensors : s.id = row.sensor_id /\ Gone(s.device_id)

\* C10: no query returns a Sensor, a Decoding Configuration or a Sample of a
\* device that has been deleted.
C10_DeleteDeviceCascades ==
  lastQuery.kind # "none" => \A row \in lastQuery.rows : ~ OfGoneDevice(lastQuery.kind, row)

\* C11: a Sensor has at most one Decoding Configuration.
C11_OneConfigurationPerSensor ==
  \A s \in sensors : Cardinality(getModbusMapBySensor(s.id)) <= 1

\* C15: no two Sensors of one Device have the same name.
C15_SensorNameUniquePerDevice ==
  \A s \in sensors, t \in sensors :
    (s.device_id = t.device_id /\ s.sensor_name = t.sensor_name) => s.id = t.id

\* a createSensor that repeats the (device, name) of a sensor was answered
\* with an error
C15_Witness ==
  /\ lastQuery.kind = "createSensor"
  /\ lastQuery.status = 500
  /\ \E s \in sensors : /\ s.device_id = lastQuery.filter.deviceId
                        /\ s.sensor_name = lastQuery.filter.sensor_name

\* C16: a Sensor that is created references a Device that exists.
C16_CreateSensorNeedsDevice ==
  [][\A s \in sensors' : (\A t \in sensors : t.id # s.id) =>
        \E d \in devices : d.id = s.device_id]_vars

\* C12: getLatest returns at most one row per active Sensor of the device,
\* none for an inactive sensor, and each row is the Sample of its sensor with
\* the maximum timestamp.
C12_LatestIsMaxTimestamp ==
  lastQuery.kind = "latest" =>
    /\ \A row \in lastQuery.rows :
         /\ \E s \in sensors : /\ s.id = row.sensor_id
                               /\ s.device_id = lastQuery.filter.deviceId
                               /\ s.is_active = 1
         /\ \A y \in sensor_data : y.sensor_id = row.sensor_id => y.timestamp <= row.timestamp
    /\ \A r1 \in lastQuery.rows, r2 \in lastQuery.rows :
         r1.sensor_id = r2.sensor_id => r1 = r2

\* the loop is about to insert the reading it stands on
Inserting ==
  /\ req.pc = "loop"
  /\ req.i <= Len(req.data)
  /\ Accepts(req.snap, req.data[req.i])
  /\ req.data[req.i].value # NULL

\* C13: every accepted reading of every submission persists a new Sample and
\* leaves the Samples already stored in place, whatever is stored already.
C13_IngestionNotIdempotent ==
  [][(Inserting /\ req' # req) =>
       /\ sensor_data \subseteq sensor_data'
       /\ Cardinality(sensor_data') = Cardinality(sensor_data) + 1]_vars

\* the same reading was submitted twice and both submissions left a Sample
C13_Witness ==
  /\ res.status = 200
  /\ res.inserted = 1
  /\ Cardinality(sensor_data) = 2
  /\ \E x \in sensor_data, y \in sensor_data :
       /\ x.id < res.first /\ y.id >= res.first
       /\ x.sensor_id = y.sensor_id /\ x.value = y.value /\ x.timestamp = y.timestamp

\* the sensor the loop found in its list for the reading is deleted by now
SensorDeleted ==
  \A s \in find(req.snap, req.data[req.i].sensor_name) : getSensorById(s.id) = {}

\* C14: a reading whose sensor was deleted while the batch is processed is
\* dropped: the loop stores no Sample for it and the batch goes on.
C14_DeletedSensorDropsReading ==
  [][(Inserting /\ SensorDeleted /\ req' # req) =>
       (sensor_data' = sensor_data /\ res'.status = 0)]_vars

\* C17: a range query returns at most `limit` rows, whatever limit the caller
\* supplies.
C17_RangeLimitRespected ==
  lastQuery.kind = "range" =>
    Cardinality(lastQuery.rows) <= (IF lastQuery.filter.limit < 0 THEN 0
                                    ELSE lastQuery.filter.limit)

\* the Samples a statistics request asks for: those of the caller's tenant
\* (all of them for an administrator) that pass every filter that is present
Matching(user, f) ==
  {x \in sensor_data :
     /\ user.role # "admin" => OwnedBy(x.sensor_id, user.organization_id)
     /\ f.deviceId # NULL =>
          \E s \in sensors : s.id = x.sensor_id /\ s.device_id = f.deviceId
     /\ f.sensorId # NULL => x.sensor_id = f.sensorId
     /\ f.start_date # NULL => x.timestamp >= f.start_date
     /\ f.end_date # NULL => x.timestamp <= f.end_date}

\* C18: statistics returns one row per sensor that has matching Samples, a
\* single row when one sensor is specified, and the count, minimum, maximum
\* and average of each row are those of the sensor's matching Samples.
C18_StatisticsPerSensor ==
  lastQuery.kind = "statistics" =>
    LET all == Matching(lastQuery.caller, lastQuery.filter)
        group(sid) == {x \in all : x.sensor_id = sid}
    IN /\ {r.sensor_id : r \in lastQuery.rows} = {x.sensor_id : x \in all}
       /\ Cardinality(lastQuery.rows) = Cardinality({x.sensor_id : x \in all})
       /\ lastQuery.filter.sensorId # NULL => Cardinality(lastQuery.rows) <= 1
       /\ \A r \in lastQuery.rows :
            /\ r.total_records = Cardinality(group(r.sensor_id))
            /\ r.sum_value = Sum(group(r.sensor_id))
            /\ \E x \in group(r.sensor_id) : x.value = r.min_value
            /\ \E x \in group(r.sensor_id) : x.value = r.max_value
            /\ \A x \in group(r.sensor_id) : r.min_value <= x.value /\ x.value <= r.max_value

\* a tenant's statistics over two Samples of one sensor with different values
C18_Witness ==
  /\ lastQuery.kind = "statistics"
  /\ lastQuery.caller.role = "user"
  /\ \E r \in lastQuery.rows :
       r.total_records = 2 /\ r.min_value = 0 /\ r.max_value = 5 /\ r.sum_value = 5

\* the connected subscribers the event of this step did not reach
Missed == {c \in Clients : (\E j \in 1..Len(OpenClients) : OpenClients[j] = c)
                             /\ inbox[c].type # "sensor_data"}

\* C19: a published event reaches every subscriber that is connected when it
\* is published; at most the one subscriber whose own send fails misses it.
C19_EverySubscriberReceives ==
  (res.status # 0 /\ res.published) => Cardinality(Missed) <= 1

\* C20: a publish leaves no receiver that could not accept the message in the
\* subscriber set.
C20_DeadReceiversDropped ==
  (res.status # 0 /\ res.published) =>
    \A j \in 1..Len(clients) :
      readyState[clients[j]] = "OPEN" /\ inbox[clients[j]].type = "sensor_data"

InSet(c) == \E j \in 1..Len(clients) : clients[j] = c

\* C21: a subscriber whose disconnect was detected is not in the subscriber
\* set and is sent no event; a subscriber that is connected is in the set.
C21_SubscriberLifecycle ==
  \A c \in Clients :
    /\ readyState[c] = "CLOSED" => (~ InSet(c) /\ inbox[c] = NoMessage)
    /\ readyState[c] = "OPEN" => InSet(c)

\* the first subscriber has come and gone, and an event is published to the
\* second one alone
C21_Witness ==
  /\ clients = <<2>>
  /\ readyState[1] = "CLOSED"
  /\ res.status = 200
  /\ inbox[2].type = "sensor_data"
  /\ inbox[1] = NoMessage

\* the Samples an event carries
Carried(message) == {message.data[i] : i \in 1..Len(message.data)}

\* C22: the event of a persisted batch carries exactly the Samples the batch
\* created, each with its sensor name, value and timestamp, and names the
\* device.
C22_EventCarriesBatch ==
  \A c \in Clients :
    inbox[c].type = "sensor_data" =>
      /\ {x.id : x \in Carried(inbox[c])} = {x.id : x \in BatchRows(res)}
      /\ inbox[c].device_name = res.device_name
      /\ \A x \in Carried(inbox[c]) :
           {"sensor_name", "value", "timestamp"} \subseteq DOMAIN x

\* C23: the event of a batch is published in the step that answers the batch,
\* after every Sample of the batch is persisted, and a batch that is answered
\* with an error has persisted and published nothing.
C23_BatchStateMachine ==
  /\ \A c \in Clients :
       inbox[c].type = "sensor_data" =>
         /\ res.status # 0
         /\ Len(inbox[c].data) = Cardinality(BatchRows(res))
  /\ res.status \notin {0, 200} => (BatchRows(res) = {} /\ ~ res.published)

\* C24: no two Devices have the same name.
C24_DeviceNameUnique ==
  \A d \in devices, e \in devices : d.name = e.name => d.id = e.id

\* of two interleaved posts of one new name, the later INSERT was rejected
\* and the device of the earlier one is the only one of that name
C24_Witness ==
  /\ lastQuery.kind = "upsertDevice"
  /\ lastQuery.status = 500
  /\ lastQuery.device = {}
  /\ Cardinality({d \in devices : d.name = lastQuery.filter.name}) = 1
  /\ \E p \in Posters : posts[p].pc = "reread" /\ posts[p].name = lastQuery.filter.name

\* C25: no field of an exported line is the text "null" or "undefined".
C25_CsvHasNoNullText ==
  lastQuery.kind = "export" =>
    \A line \in lastQuery.csv :
      /\ line.device_name \notin {"null", "undefined"}
      /\ line.sensor_name \notin {"null", "undefined"}
      /\ line.unit \notin {"null", "undefined"}
\* C26: an update of a setting changes only its value and updated_at: a key
\* that has a row before and after a step has the same description in both
C26_UpdateKeepsDescription ==
  [][\A r \in settings : \A u \in settings' :
       r.key = u.key => u.description = r.description]_vars

\* C27: a restart leaves every row of settings as it was, a changed value
\* included, and no key has two rows
C27_SeedOnlyWhenAbsent ==
  [][/\ \A r \in settings' : \A u \in settings' : r.key = u.key => r = u
     /\ lastQuery'.kind = "initialize" => settings \subseteq settings']_vars

\* a restart has run on a database whose data_interval was changed to 600
C27_Witness ==
  /\ lastQuery.kind = "initialize"
  /\ \E r \in settings : r.key = "data_interval" /\ r.value = "600"

\* C28: a fixed-field submission with a device name that has no device
\* registers the device, persists the sample and succeeds
C28_FixedFieldAutoRegisters ==
  [][(/\ lastQuery'.kind = "sensorDataFixed"
      /\ lastQuery'.filter.device_name # ""
      /\ lastQuery'.filter.radiation # NULL
      /\ getDeviceByName(lastQuery'.filter.device_name) = {})
     => /\ lastQuery'.status = 200
        /\ \E d \in devices' : d.name = lastQuery'.filter.device_name
        /\ lastQuery'.data # {}
        /\ lastQuery'.data \subseteq sensor_data']_vars

\* C29: a successful read of a raw value r >= 0x8000 decodes it as two's
\* complement: the value is (r - 65536) * scale + offset
C29_Signed16TwosComplement ==
  (field.read.ok /\ field.read.rawValue >= 32768)
    => field.read.value =
         (field.read.rawValue - Word) * field.read.scale + field.read.offset

\* C30: a creation whose body has an address, a register type and a data
\* type succeeds and stores the address, scale and offset as supplied, the
\* defaults standing in only for an absent scale or offset
C30_ConfigurationStoredAsSupplied ==
  (/\ lastQuery.kind = "insertModbusMap"
   /\ lastQuery.filter.body.modbus_address # NULL
   /\ lastQuery.filter.body.register_type # ""
   /\ lastQuery.filter.body.data_type # "")
  => /\ lastQuery.status = 200
     /\ lastQuery.rows # {}
     /\ lastQuery.rows \subseteq modbus_maps
     /\ \A m \in lastQuery.rows :
          /\ m.modbus_address = lastQuery.filter.body.modbus_address
          /\ m.scale_factor = IF lastQuery.filter.body.scale_factor = NULL
                              THEN DefaultScale ELSE lastQuery.filter.body.scale_factor
          /\ m.offset = IF lastQuery.filter.body.offset = NULL
                        THEN DefaultOffset ELSE lastQuery.filter.body.offset

\* C31: the value persisted for an accepted reading is the submitted value
\* converted with the configuration of its sensor: value * scale + offset
C31_PersistedValueConverted ==
  [][(req.pc = "loop" /\ req.i <= Len(req.data))
     => \A x \in sensor_data' \ sensor_data :
          \A m \in getModbusMapBySensor(x.sensor_id) :
            x.value = req.data[req.i].value * m.scale_factor + m.offset]_vars

\* C32: an attempt that is not the first is made only when a send interval
\* has elapsed since the attempt before it
C32_OneAttemptPerInterval ==
  [][(field'.millis # field.millis /\ field'.outcome # "none" /\ field.attempted)
     => field.sinceAttempt >= SendInterval]_vars

\* C37: every value of a submitted batch comes from a register read that
\* succeeded
C37_FailedReadNotSubmitted ==
  \A i \in 1..Len(field.sent) : field.sent[i].ok

\* the devices of an organization, its sensors and their configurations
DevicesOf(org, devs) == {d \in devs : d.organization_id = org}

SensorsOf(org, devs, sens) == {x \in sens : \E d \in DevicesOf(org, devs) : d.id = x.device_id}

MapsOf(org, devs, sens, maps) ==
  {m \in maps : \E x \in SensorsOf(org, devs, sens) : x.id = m.sensor_id}

\* C33: a management call of the non-admin user of organization 2 (every
\* step from time 1 on) leaves the devices, sensors and configurations of
\* organization 1 as they were
C33_ManagementTenantIsolated ==
  [][(now = 1 /\ now' = 1)
     => /\ DevicesOf(1, devices') = DevicesOf(1, devices)
        /\ SensorsOf(1, devices, sensors') = SensorsOf(1, devices, sensors)
        /\ MapsOf(1, devices, sensors, modbus_maps')
             = MapsOf(1, devices, sensors, modbus_maps)]_vars

\* C34: the row the sensor-level latest query returns for an active sensor
\* is the row of that sensor in the device-level latest query
C34_LatestQueriesAgree ==
  lastQuery.kind = "latestBySensor" =>
    \A sn \in sensors :
      (sn.id = lastQuery.filter.sensorId /\ sn.is_active = 1)
        => lastQuery.rows \subseteq getLatestSensorData(sn.device_id)

\* C35: an update that omits is_active (every update of SpecUpdate) leaves
\* is_active of the sensor as it was
C35_UpdateKeepsOmitted ==
  [][\A sn \in sensors : \A t \in sensors' :
       sn.id = t.id => t.is_active = sn.is_active]_vars

\* C36: a registration that failed has left no organization without a user:
\* the organization it created, if any, has the user created with it
C36_RegistrationAllOrNothing ==
  \A p \in Posters :
    (accounts.regs[p].pc = "done" /\ accounts.regs[p].status # 200)
      => \A o \in accounts.organizations :
           o.id = accounts.regs[p].organization_id
             => \E u \in accounts.users : u.organization_id = o.id

\* C38: no sensor_data event is published for a batch that persisted no
\* Sample: an event that reaches a subscriber carries at least one Sample
C38_NoEventForEmptyBatch ==
  \A c \in Clients : inbox[c].type = "sensor_data" => Len(inbox[c].data) > 0

\* C39: the fixed-field export renders the stored value of every measurement
\* field of every row, 0 included; only a NULL field is rendered empty
C39_FixedCsvRendersZero ==
  lastQuery.kind = "exportFixed" =>
    \A i \in 1..Len(lastQuery.rows) :
      LET row == lastQuery.rows[i]
          line == lastQuery.csv[i]
      IN /\ line.radiation =
              (IF row.radiation = NULL THEN "" ELSE NumberText(row.radiation))
         /\ line.temperature1 =
              (IF row.temperature1 = NULL THEN "" ELSE NumberText(row.temperature1))
         /\ line.temperature2 =
              (IF row.temperature2 = NULL THEN "" ELSE NumberText(row.temperature2))

====

